---- MODULE Spec2Model ----
(***************************************************************************)
(* A model of the iq-puzzler tiling engine.                                *)
(*                                                                         *)
(*   geometry, catalog, add/pop, solveP/solve : src/unnamed/part_000       *)
(*   the single-solution solve                : src/main.go (second file   *)
(*                                              of the concatenation)      *)
(*                                                                         *)
(* Go indices start at 0 and TLA+ sequences at 1: tx[t] of the source is   *)
(* tx[t+1] here, and the same holds for every slice.  A coordinate Pos{x,y}*)
(* is the tuple <<x, y>>.  The occupancy grid cells[x][y] is the set of    *)
(* the coordinates whose entry is true.                                    *)
(***************************************************************************)
EXTENDS Integers, Sequences, FiniteSets, TLC

VARIABLES
    board,   \* the board text given to parseBoard
    pool,    \* the piece names given to parseAvailable
    sess,    \* the session g of main (SpecGame, SpecSeq)
    last,    \* SpecGame: the last add or pop call and what it returned
    stack,   \* SpecSeq: the loop counters of the active solve calls
    pcS,     \* SpecSeq: "enter", "loop", "return"
    rv,      \* SpecSeq: the (ok, err) being returned
    mainpc,  \* Spec: where main is: "solveP", "spawn", "range", "done"
    ch,      \* Spec: the channel res: "none", "nil", "open", "closed"
    iter,    \* Spec: the counters x, y and orientation index of solveP's loops
    wg,      \* Spec: the counter of the WaitGroup
    units,   \* Spec: the goroutines whose add placed the piece, by loop counters
    exiting, \* Spec: the number of goroutines whose add did not place the
             \*       piece and whose deferred wg.Done has not run yet
    closer,  \* Spec: the closing goroutine: "none", "wait", "close", "done"
    received,\* Spec: the slices main has received from res, in order
    panicked \* Spec: Nil, or the value of the panic that ended the process

seqVars == <<stack, pcS, rv>>

concVars == <<mainpc, ch, iter, wg, units, exiting, closer, received, panicked>>

vars == <<board, pool, sess, last, seqVars, concVars>>

Nil == "nil"

(***************************************************************************)
(* Geometry                                                                *)
(***************************************************************************)
translate(p, p2) == <<p[1] + p2[1], p[2] + p2[2]>>

Transform(m, p) ==
    << m[1][1] * p[1] + m[1][2] * p[2],
       m[2][1] * p[1] + m[2][2] * p[2] >>

Mult_EntryWise(m, m2) ==
    << << m[1][1] * m2[1][1], m[1][2] * m2[1][2] >>,
       << m[2][1] * m2[2][1], m[2][2] * m2[2][2] >> >>

Mult(m, m2) ==
    << << m[1][1] * m2[1][1] + m[1][2] * m2[2][1], m[1][1] * m2[1][2] + m[1][2] * m2[2][2] >>,
       << m[2][1] * m2[1][1] + m[2][2] * m2[2][1], m[2][1] * m2[1][2] + m[2][2] * m2[2][2] >> >>

Identity == << <<1, 0>>, <<0, 1>> >>

Rot90 == << <<0, 1>>, <<-1, 0>> >>

Mirror == << <<1, 0>>, <<0, -1>> >>

tx ==
    << Identity,
       Mirror,
       Rot90,
       Mult(Rot90, Mirror),
       Mult(Rot90, Rot90),
       Mult(Mult(Rot90, Rot90), Rot90),
       Mult(Mult(Rot90, Rot90), Mirror),
       Mult(Mult(Mult(Rot90, Rot90), Rot90), Mirror) >>

(***************************************************************************)
(* Pieces                                                                  *)
(***************************************************************************)
Piece(name, pos, sym) == [name |-> name, pos |-> pos, sym |-> sym]

transform(p, m) == Piece(p.name, [i \in 1..Len(p.pos) |-> Transform(m, p.pos[i])], p.sym)

allVersions_SkipsNothing(p) == [t \in 1..Len(tx) |-> transform(p, tx[t])]

\* The loop appends transform(tx[t]) for t = 0, 1, ... and returns at the
\* first t >= 4 when the piece is flagged symmetric.
allVersions(p) ==
    LET n == IF p.sym THEN 4 ELSE Len(tx)
    IN  [t \in 1..n |-> transform(p, tx[t])]

DimX == 5

DimY == 11

pieces ==
    << Piece("blue",      << <<0,0>>, <<0,1>>, <<0,2>>, <<1,0>> >>,          FALSE),
       Piece("green",     << <<0,0>>, <<1,0>>, <<2,0>>, <<1,1>> >>,          TRUE),
       Piece("lightblue", << <<0,0>>, <<1,0>>, <<2,0>>, <<2,1>>, <<2,2>> >>, TRUE),
       Piece("maroon",    << <<0,0>>, <<0,1>>, <<1,1>>, <<1,2>> >>,          TRUE),
       Piece("mint",      << <<0,0>>, <<0,1>>, <<0,2>>, <<1,0>>, <<1,1>> >>, FALSE),
       Piece("olive",     << <<0,0>>, <<1,0>>, <<2,0>>, <<0,1>>, <<2,1>> >>, TRUE),
       Piece("orange",    << <<0,0>>, <<1,0>>, <<1,1>>, <<1,2>>, <<2,1>> >>, FALSE),
       Piece("pink",      << <<0,0>>, <<0,1>>, <<0,2>>, <<1,2>>, <<1,3>> >>, FALSE),
       Piece("red",       << <<0,0>>, <<0,1>>, <<0,2>>, <<0,3>>, <<1,0>> >>, FALSE),
       Piece("turquoise", << <<0,0>>, <<0,1>>, <<1,0>> >>,                   FALSE),
       Piece("violet",    << <<0,0>>, <<1,0>>, <<1,1>>, <<2,1>>, <<2,2>> >>, TRUE),
       Piece("yellow",    << <<0,0>>, <<0,1>>, <<0,2>>, <<0,3>>, <<1,1>> >>, FALSE) >>

\* The first catalog entry with the name (every name of an input pool is a
\* catalog name: parseAvailable rejects the others before the search).
getPiece(name) ==
    LET hits == {i \in 1..Len(pieces) : pieces[i].name = name}
    IN  pieces[CHOOSE i \in hits : \A j \in hits : i <= j]

parseAvailable(a) == [i \in 1..Len(a) |-> getPiece(a[i])]

precompute(ps) == [i \in 1..Len(ps) |-> allVersions(ps[i])]

(***************************************************************************)
(* Moves and sessions                                                      *)
(*                                                                         *)
(* g.moves is a Go slice: a pointer to a backing array, and a length.  The *)
(* field heap holds the backing arrays the session has allocated, in the   *)
(* order of allocation; moves.ptr is an index into it (0 is the nil slice) *)
(* and the capacity is the length of the array.                            *)
(***************************************************************************)
Positions == (0..(DimX - 1)) \X (0..(DimY - 1))

Move(piece, pos) == [Piece |-> piece, Translate |-> pos]

ZeroMove == Move(Piece("", <<>>, FALSE), <<0, 0>>)

image(m) == [i \in 1..Len(m.Piece.pos) |-> translate(m.Piece.pos[i], m.Translate)]

NilSlice == [ptr |-> 0, len |-> 0]

Game(cells, count) == [moves |-> NilSlice, cells |-> cells, count |-> count, heap |-> <<>>]

\* The elements of a slice: the first len entries of its backing array.
Elems(heap, sl) == IF sl.ptr = 0 THEN <<>> ELSE SubSeq(heap[sl.ptr], 1, sl.len)

Moves(g) == Elems(g.heap, g.moves)

Cap(g) == IF g.moves.ptr = 0 THEN 0 ELSE Len(g.heap[g.moves.ptr])

\* append(g.moves, m): in place while the capacity lasts, otherwise into a
\* new array of twice the capacity (of capacity 1 for the nil slice).
appendMove(g, m) ==
    IF g.moves.len < Cap(g)
    THEN [g EXCEPT !.heap[g.moves.ptr][g.moves.len + 1] = m,
                   !.moves.len = @ + 1]
    ELSE LET newcap == IF Cap(g) = 0 THEN 1 ELSE 2 * Cap(g)
             arr == [i \in 1..newcap |->
                        IF i <= g.moves.len THEN g.heap[g.moves.ptr][i]
                        ELSE IF i = g.moves.len + 1 THEN m ELSE ZeroMove]
         IN  [g EXCEPT !.heap = Append(@, arr),
                       !.moves = [ptr |-> Len(g.heap) + 1, len |-> g.moves.len + 1]]

ErrFull == "board is already full"

ErrEmpty == "failed to pop from empty game"

InBounds(pi) == pi[1] >= 0 /\ pi[1] < DimX /\ pi[2] >= 0 /\ pi[2] < DimY

add_MarksBeforeCheck(g, piece, pos) ==
    IF g.count + Len(piece.pos) > DimX * DimY
    THEN [ok |-> FALSE, err |-> ErrFull, g |-> g]
    ELSE LET pi(i) == translate(piece.pos[i], pos)
             n == Len(piece.pos)
             stop == {i \in 1..n : ~InBounds(pi(i)) \/ pi(i) \in g.cells}
             first == IF stop = {} THEN n + 1 ELSE CHOOSE i \in stop : \A j \in stop : i <= j
             marked == [g EXCEPT !.cells = @ \cup {pi(i) : i \in 1..(first - 1)}]
         IN  IF stop # {}
             THEN [ok |-> FALSE, err |-> Nil, g |-> marked]
             ELSE [ok |-> TRUE, err |-> Nil,
                   g |-> [appendMove(marked, Move(piece, pos)) EXCEPT !.count = @ + n]]

add_IgnoresOccupied(g, piece, pos) ==
    IF g.count + Len(piece.pos) > DimX * DimY
    THEN [ok |-> FALSE, err |-> ErrFull, g |-> g]
    ELSE LET pi(i) == translate(piece.pos[i], pos)
             n == Len(piece.pos)
         IN  IF \E i \in 1..n : ~InBounds(pi(i))
             THEN [ok |-> FALSE, err |-> Nil, g |-> g]
             ELSE [ok |-> TRUE, err |-> Nil,
                   g |-> [appendMove(g, Move(piece, pos)) EXCEPT
                             !.count = @ + n,
                             !.cells = @ \cup {pi(i) : i \in 1..n}]]

add_CountsOneCell(g, piece, pos) ==
    IF g.count + Len(piece.pos) > DimX * DimY
    THEN [ok |-> FALSE, err |-> ErrFull, g |-> g]
    ELSE LET pi(i) == translate(piece.pos[i], pos)
             n == Len(piece.pos)
         IN  IF \E i \in 1..n : ~InBounds(pi(i)) \/ pi(i) \in g.cells
             THEN [ok |-> FALSE, err |-> Nil, g |-> g]
             ELSE [ok |-> TRUE, err |-> Nil,
                   g |-> [appendMove(g, Move(piece, pos)) EXCEPT
                             !.count = @ + 1,
                             !.cells = @ \cup {pi(i) : i \in 1..n}]]

\* Game.add.  The first loop returns (false, nil) at the first image cell
\* that is outside the board or occupied, before anything is written; the
\* writes follow the loop.
add(g, piece, pos) ==
    IF g.count + Len(piece.pos) > DimX * DimY
    THEN [ok |-> FALSE, err |-> ErrFull, g |-> g]
    ELSE LET pi(i) == translate(piece.pos[i], pos)
             n == Len(piece.pos)
         IN  IF \E i \in 1..n : ~InBounds(pi(i)) \/ pi(i) \in g.cells
             THEN [ok |-> FALSE, err |-> Nil, g |-> g]
             ELSE [ok |-> TRUE, err |-> Nil,
                   g |-> [appendMove(g, Move(piece, pos)) EXCEPT
                             !.count = @ + n,
                             !.cells = @ \cup {pi(i) : i \in 1..n}]]

pop_KeepsCells(g) ==
    IF g.moves.len = 0
    THEN [err |-> ErrEmpty, g |-> g]
    ELSE LET m == Moves(g)[g.moves.len]
         IN  [err |-> Nil,
              g |-> [g EXCEPT !.count = @ - Len(m.Piece.pos),
                              !.moves.len = @ - 1]]

pop_KeepsCount(g) ==
    IF g.moves.len = 0
    THEN [err |-> ErrEmpty, g |-> g]
    ELSE LET m == Moves(g)[g.moves.len]
         IN  [err |-> Nil,
              g |-> [g EXCEPT !.cells = @ \ {translate(m.Piece.pos[i], m.Translate) :
                                                i \in 1..Len(m.Piece.pos)},
                              !.moves.len = @ - 1]]

pop_EmptyIsNoError(g) ==
    IF g.moves.len = 0
    THEN [err |-> Nil, g |-> g]
    ELSE LET m == Moves(g)[g.moves.len]
         IN  [err |-> Nil,
              g |-> [g EXCEPT !.count = @ - Len(m.Piece.pos),
                              !.cells = @ \ {translate(m.Piece.pos[i], m.Translate) :
                                                i \in 1..Len(m.Piece.pos)},
                              !.moves.len = @ - 1]]

\* Game.pop
pop(g) ==
    IF g.moves.len = 0
    THEN [err |-> ErrEmpty, g |-> g]
    ELSE LET m == Moves(g)[g.moves.len]
         IN  [err |-> Nil,
              g |-> [g EXCEPT !.count = @ - Len(m.Piece.pos),
                              !.cells = @ \ {translate(m.Piece.pos[i], m.Translate) :
                                                i \in 1..Len(m.Piece.pos)},
                              !.moves.len = @ - 1]]

\* The text of a board that passes parseBoard's row and column checks, as
\* the character at each coordinate; parseBoard marks and counts the 'x'.
BoardText(free) == [p \in Positions |-> IF p \in free THEN "0" ELSE "x"]

parseBoard(b) ==
    LET xs == {p \in Positions : b[p] = "x"}
    IN  Game(xs, Cardinality(xs))

\* The sum of the sizes of the pieces of a sequence of moves.
RECURSIVE SumImages(_)
SumImages(ms) == IF ms = <<>> THEN 0 ELSE Len(ms[1].Piece.pos) + SumImages(Tail(ms))

\* What a caller can observe of a session: grid, count and move history.
View(g) == [cells |-> g.cells, count |-> g.count, moves |-> Moves(g)]

(***************************************************************************)
(* SpecGame: a session driven by arbitrary add and pop calls               *)
(***************************************************************************)
MaxMoves == 2

Margin == 1

Window(x, y, h, w) == {p \in Positions : p[1] >= x /\ p[1] < x + h /\ p[2] >= y /\ p[2] < y + w}

GameBoards ==
    { BoardText(Window(0, 0, 2, 2) \cup {<<0, 2>>}),
      BoardText(Window(3, 9, 2, 2)),
      BoardText({<<4, 0>>, <<4, 1>>}),
      BoardText({}) }

GamePieces == {"turquoise", "green"}

GameVersions ==
    UNION { {allVersions(getPiece(nm))[t] : t \in 1..Len(allVersions(getPiece(nm)))} :
            nm \in GamePieces }

Anchors == ((0 - Margin)..(DimX - 1 + Margin)) \X ((0 - Margin)..(DimY - 1 + Margin))

\* The variables of Spec while another specification runs.
ConcIdle ==
    /\ mainpc = "none"
    /\ ch = "none"
    /\ iter = [x |-> 0, y |-> 0, t |-> 0]
    /\ wg = 0
    /\ units = <<>>
    /\ exiting = 0
    /\ closer = "none"
    /\ received = <<>>
    /\ panicked = Nil

NoCall == [op |-> "none"]

InitGame ==
    /\ board \in GameBoards
    /\ pool = <<>>
    /\ sess = parseBoard(board)
    /\ last = NoCall
    /\ stack = <<>>
    /\ pcS = "none"
    /\ rv = NoCall
    /\ ConcIdle

DoAdd ==
    \E piece \in GameVersions, pos \in Anchors :
        LET r == add(sess, piece, pos)
            im == {translate(piece.pos[i], pos) : i \in 1..Len(piece.pos)}
        IN  /\ Len(Moves(sess)) < MaxMoves
            /\ sess' = r.g
            /\ last' = [op |-> "add", size |-> Len(piece.pos),
                        overlap |-> (im \cap sess.cells # {}),
                        oob |-> (\E c \in im : c \notin Positions),
                        ok |-> r.ok, err |-> r.err, pre |-> View(sess)]
            /\ UNCHANGED <<board, pool, seqVars, concVars>>

DoPop ==
    LET r == pop(sess)
    IN  /\ sess' = r.g
        /\ last' = [op |-> "pop", err |-> r.err, pre |-> View(sess),
                    afterAdd |-> (last.op = "add" /\ last.ok),
                    preAdd |-> IF last.op = "add" /\ last.ok THEN last.pre ELSE View(sess)]
        /\ UNCHANGED <<board, pool, seqVars, concVars>>

NextGame == DoAdd \/ DoPop

SpecGame == InitGame /\ [][NextGame]_vars

(***************************************************************************)
(* SpecGeom: calls of Transform, Mult and allVersions on the transform     *)
(* table and the catalog.                                                  *)
(***************************************************************************)
CoordBound == 2

Coords == ((0 - CoordBound)..CoordBound) \X ((0 - CoordBound)..CoordBound)

CatalogNames == {pieces[i].name : i \in 1..Len(pieces)}

InitGeom ==
    /\ board = BoardText({})
    /\ \E name \in CatalogNames : pool = <<name>>
    /\ sess = parseBoard(board)
    /\ last = NoCall
    /\ stack = <<>>
    /\ pcS = "none"
    /\ rv = NoCall
    /\ ConcIdle

\* m.Transform(p) for a matrix of the table
DoTransform ==
    \E t \in 1..Len(tx), p \in Coords :
        /\ last' = [op |-> "Transform", m |-> tx[t], p |-> p, out |-> Transform(tx[t], p)]
        /\ UNCHANGED <<board, pool, sess, seqVars, concVars>>

\* m.Mult(m2) for two matrices of the table
DoMult ==
    \E t \in 1..Len(tx), t2 \in 1..Len(tx) :
        /\ last' = [op |-> "Mult", m |-> tx[t], m2 |-> tx[t2], out |-> Mult(tx[t], tx[t2])]
        /\ UNCHANGED <<board, pool, sess, seqVars, concVars>>

\* piece.allVersions() for the catalog piece named by the pool, as
\* precompute calls it
DoAllVersions ==
    /\ last' = [op |-> "allVersions", piece |-> parseAvailable(pool)[1],
                out |-> precompute(parseAvailable(pool))[1]]
    /\ UNCHANGED <<board, pool, sess, seqVars, concVars>>

NextGeom == DoTransform \/ DoMult \/ DoAllVersions

SpecGeom == InitGeom /\ [][NextGeom]_vars

(***************************************************************************)
(* The single-solution engine (second file of src/main.go: precompute of   *)
(* all 8 transforms, add, pop, and the solve that returns (bool, error)).  *)
(* Its Identity, Mirror, Transform, Mult, translate, parseBoard and Game   *)
(* are the same text as above; its Rot90, tx and catalog differ, and its   *)
(* Piece has no symmetry flag.                                             *)
(***************************************************************************)
Rot90B == << <<0, -1>>, <<1, 0>> >>

txB ==
    << Identity,
       Rot90B,
       Mult(Rot90B, Rot90B),
       Mult(Mult(Rot90B, Rot90B), Rot90B),
       Mirror,
       Mult(Rot90B, Mirror),
       Mult(Mult(Rot90B, Rot90B), Mirror),
       Mult(Mult(Mult(Rot90B, Rot90B), Rot90B), Mirror) >>

PieceB(name, pos) == [name |-> name, pos |-> pos]

transformB(p, m) == PieceB(p.name, [i \in 1..Len(p.pos) |-> Transform(m, p.pos[i])])

piecesB ==
    << PieceB("blue",      << <<0,0>>, <<0,1>>, <<0,2>>, <<1,0>> >>),
       PieceB("green",     << <<0,0>>, <<0,1>>, <<0,2>>, <<1,1>> >>),
       PieceB("lightblue", << <<0,0>>, <<0,1>>, <<0,2>>, <<1,0>>, <<2,0>> >>),
       PieceB("maroon",    << <<0,0>>, <<0,1>>, <<1,1>>, <<1,2>> >>),
       PieceB("mint",      << <<0,0>>, <<0,1>>, <<0,2>>, <<1,0>>, <<1,1>> >>),
       PieceB("olive",     << <<0,0>>, <<0,1>>, <<0,2>>, <<1,0>>, <<1,2>> >>),
       PieceB("orange",    << <<0,0>>, <<1,0>>, <<1,1>>, <<1,2>>, <<2,1>> >>),
       PieceB("pink",      << <<0,0>>, <<0,1>>, <<0,2>>, <<1,2>>, <<1,3>> >>),
       PieceB("red",       << <<0,0>>, <<0,1>>, <<0,2>>, <<0,3>>, <<1,0>> >>),
       PieceB("turquoise", << <<0,0>>, <<0,1>>, <<1,0>> >>),
       PieceB("violet",    << <<0,0>>, <<1,0>>, <<1,1>>, <<2,1>>, <<2,2>> >>),
       PieceB("yellow",    << <<0,0>>, <<0,1>>, <<0,2>>, <<0,3>>, <<1,1>> >>) >>

getPieceB(name) ==
    LET hits == {i \in 1..Len(piecesB) : piecesB[i].name = name}
    IN  piecesB[CHOOSE i \in hits : \A j \in hits : i <= j]

parseAvailableB(a) == [i \in 1..Len(a) |-> getPieceB(a[i])]

precomputeB_RotationsOnly(ps) == [i \in 1..Len(ps) |-> [t \in 1..4 |-> transformB(ps[i], txB[t])]]

precomputeB(ps) == [i \in 1..Len(ps) |-> [t \in 1..8 |-> transformB(ps[i], txB[t])]]

addB_IgnoresOccupied(g, piece, pos) == add_IgnoresOccupied(g, piece, pos)

\* Game.add of this file: the image buffer is a package-level array here,
\* written and read within the one call.
addB(g, piece, pos) ==
    IF g.count + Len(piece.pos) > DimX * DimY
    THEN [ok |-> FALSE, err |-> ErrFull, g |-> g]
    ELSE LET pi(i) == translate(piece.pos[i], pos)
             n == Len(piece.pos)
         IN  IF \E i \in 1..n : ~InBounds(pi(i)) \/ pi(i) \in g.cells
             THEN [ok |-> FALSE, err |-> Nil, g |-> g]
             ELSE [ok |-> TRUE, err |-> Nil,
                   g |-> [appendMove(g, Move(piece, pos)) EXCEPT
                             !.count = @ + n,
                             !.cells = @ \cup {pi(i) : i \in 1..n}]]

popB(g) ==
    IF g.moves.len = 0
    THEN [err |-> ErrEmpty, g |-> g]
    ELSE LET m == Moves(g)[g.moves.len]
         IN  [err |-> Nil,
              g |-> [g EXCEPT !.count = @ - Len(m.Piece.pos),
                              !.cells = @ \ {translate(m.Piece.pos[i], m.Translate) :
                                                i \in 1..Len(m.Piece.pos)},
                              !.moves.len = @ - 1]]

ErrExhausted == "no pieces left, but board is not full"

Ret(ok, err) == [ok |-> ok, err |-> err]

solveEmptyB_NoError(g) == Ret(g.count = DimX * DimY, Nil)

\* solve with len(ps) == 0
solveEmptyB(g) ==
    IF g.count # DimX * DimY THEN Ret(FALSE, ErrExhausted) ELSE Ret(TRUE, Nil)

\* The counters of the three nested loops after one more iteration;
\* x = DimX when the loops are over.  nv is the number of orientations.
NextIter(f, nv) ==
    IF f.t + 1 < nv THEN [f EXCEPT !.t = @ + 1]
    ELSE IF f.y + 1 < DimY THEN [x |-> f.x, y |-> f.y + 1, t |-> 0]
    ELSE [x |-> f.x + 1, y |-> 0, t |-> 0]

solveAfterCallB_NoPop(g, r) ==
    IF r.ok \/ r.err # Nil
    THEN [return |-> TRUE, rv |-> r, g |-> g]
    ELSE [return |-> FALSE, rv |-> r, g |-> g]

\* solve after the recursive call has returned r: return it when it is a
\* success or an error, otherwise pop and go on with the loops.
solveAfterCallB(g, r) ==
    IF r.ok \/ r.err # Nil
    THEN [return |-> TRUE, rv |-> r, g |-> g]
    ELSE LET p == popB(g)
         IN  IF p.err # Nil
             THEN [return |-> TRUE, rv |-> Ret(FALSE, p.err), g |-> p.g]
             ELSE [return |-> FALSE, rv |-> r, g |-> p.g]

(***************************************************************************)
(* SpecSeq: main of the single-solution engine.  stack holds one frame of  *)
(* loop counters per active call of solve that is inside its loops; the    *)
(* call with frame number j was given the first Len(pool) - j + 1 entries  *)
(* of the cache and places the last of them.                               *)
(***************************************************************************)
cacheB == precomputeB(parseAvailableB(pool))

Top == stack[Len(stack)]

Callers == SubSeq(stack, 1, Len(stack) - 1)

TopVersions == cacheB[Len(pool) - Len(stack) + 1]

TopAdd == addB(sess, TopVersions[Top.t + 1], <<Top.x, Top.y>>)

SeqInputs ==
    { [board |-> BoardText({}), pool |-> <<>>],
      [board |-> BoardText({<<0, 0>>}), pool |-> <<>>],
      [board |-> BoardText(Positions), pool |-> <<"blue">>],
      [board |-> BoardText({<<4, 9>>, <<4, 10>>}), pool |-> <<"turquoise">>],
      [board |-> BoardText(Window(0, 0, 2, 3)), pool |-> <<"turquoise", "turquoise">>],
      [board |-> BoardText(Window(3, 7, 2, 4) \ {<<4, 10>>}), pool |-> <<"turquoise", "blue">>],
      [board |-> BoardText({<<0, 0>>, <<0, 1>>, <<0, 2>>, <<1, 2>>}), pool |-> <<"blue">>],
      [board |-> BoardText(Window(2, 3, 1, 4)), pool |-> <<"blue">>],
      [board |-> BoardText(Window(1, 1, 2, 4) \ {<<1, 1>>}), pool |-> <<"green", "turquoise">>] }

InitSeq ==
    /\ \E in \in SeqInputs : board = in.board /\ pool = in.pool
    /\ sess = parseBoard(board)
    /\ last = NoCall
    /\ stack = <<>>
    /\ pcS = "enter"
    /\ rv = NoCall
    /\ ConcIdle

SeqCallEmpty ==
    /\ pcS = "enter"
    /\ Len(stack) = Len(pool)
    /\ rv' = solveEmptyB(sess)
    /\ pcS' = "return"
    /\ UNCHANGED <<concVars, board, pool, sess, last, stack>>

SeqCallLoop ==
    /\ pcS = "enter"
    /\ Len(stack) < Len(pool)
    /\ stack' = Append(stack, [x |-> 0, y |-> 0, t |-> 0])
    /\ pcS' = "loop"
    /\ UNCHANGED <<concVars, board, pool, sess, last, rv>>

SeqLoopEnd ==
    /\ pcS = "loop"
    /\ Top.x >= DimX
    /\ stack' = Callers
    /\ rv' = Ret(FALSE, Nil)
    /\ pcS' = "return"
    /\ UNCHANGED <<concVars, board, pool, sess, last>>

SeqAddError ==
    /\ pcS = "loop"
    /\ Top.x < DimX
    /\ TopAdd.err # Nil
    /\ sess' = TopAdd.g
    /\ stack' = Callers
    /\ rv' = Ret(FALSE, TopAdd.err)
    /\ pcS' = "return"
    /\ UNCHANGED <<concVars, board, pool, last>>

SeqPlaced ==
    /\ pcS = "loop"
    /\ Top.x < DimX
    /\ TopAdd.err = Nil
    /\ TopAdd.ok
    /\ sess' = TopAdd.g
    /\ pcS' = "enter"
    /\ UNCHANGED <<concVars, board, pool, last, stack, rv>>

SeqRejected ==
    /\ pcS = "loop"
    /\ Top.x < DimX
    /\ TopAdd.err = Nil
    /\ ~TopAdd.ok
    /\ sess' = TopAdd.g
    /\ stack' = [stack EXCEPT ![Len(stack)] = NextIter(@, Len(TopVersions))]
    /\ UNCHANGED <<concVars, board, pool, last, pcS, rv>>

SeqReturn ==
    /\ pcS = "return"
    /\ stack # <<>>
    /\ LET a == solveAfterCallB(sess, rv)
       IN  /\ sess' = a.g
           /\ rv' = a.rv
           /\ IF a.return
              THEN stack' = Callers /\ pcS' = "return"
              ELSE /\ stack' = [stack EXCEPT ![Len(stack)] = NextIter(@, Len(TopVersions))]
                   /\ pcS' = "loop"
    /\ UNCHANGED <<concVars, board, pool, last>>

NextSeq ==
    \/ SeqCallEmpty
    \/ SeqCallLoop
    \/ SeqLoopEnd
    \/ SeqAddError
    \/ SeqPlaced
    \/ SeqRejected
    \/ SeqReturn

SpecSeq == InitSeq /\ [][NextSeq]_vars

\* solve has returned to main.
SeqDone == pcS = "return" /\ stack = <<>>

(***************************************************************************)
(* The multi-solution engine: solveP and the streaming solve               *)
(* (src/unnamed/part_000).                                                 *)
(*                                                                         *)
(* A goroutine of solveP owns its session g2 and shares only the channel   *)
(* res and the WaitGroup.  What it does between two operations on those is *)
(* taken as one step: its add on the fresh g2 with the go statement that   *)
(* starts it, and the search from one channel send to the next.            *)
(***************************************************************************)
cache == precompute(parseAvailable(pool))

\* The counters of the three nested loops after one more iteration;
\* x = DimX when the loops are over.  nv is the number of orientations.
Iterate(f, nv) ==
    IF f.t + 1 < nv THEN [f EXCEPT !.t = @ + 1]
    ELSE IF f.y + 1 < DimY THEN [x |-> f.x, y |-> f.y + 1, t |-> 0]
    ELSE [x |-> f.x + 1, y |-> 0, t |-> 0]

FirstIter == [x |-> 0, y |-> 0, t |-> 0]

\* The number of iterations before the one with counters f, and back.
Lin(f, nv) == (f.x * DimY + f.y) * nv + f.t

UnLin(k, nv) == [x |-> (k \div nv) \div DimY, y |-> (k \div nv) % DimY, t |-> k % nv]

Least(S) == CHOOSE k \in S : \A j \in S : k <= j

ErrSendClosed == "send on closed channel"

ErrCloseClosed == "close of closed channel"

Outcome(out, err, g, frames, msg) ==
    [out |-> out, err |-> err, g |-> g, frames |-> frames, msg |-> msg]

solveCopy_Alias(g) == [g |-> g, msg |-> g.moves]

\* res = make([]Move, len(g.moves)); copy(res, g.moves)
solveCopy(g) ==
    [g |-> [g EXCEPT !.heap = Append(@, Moves(g))],
     msg |-> [ptr |-> Len(g.heap) + 1, len |-> g.moves.len]]

solveFull_AnyCount(g) == TRUE

\* the test of solve with len(ps) == 0
solveFull(g) == g.count = DimX * DimY

\* ok, err := g.add(v, Position{x, y}) in the iteration with counters
\* UnLin(k, Len(vs)) of the loops over x, y and the orientations vs.
solveAdd(g, vs, k) ==
    LET f == UnLin(k, Len(vs)) IN add(g, vs[f.t + 1], <<f.x, f.y>>)

\* The streaming solve inside one goroutine, from a point of its run to
\* the next send on the channel (out = "send"), to the return of the
\* outermost call (out = "exit"), or to a returned error (out = "panic").
\* frames holds the loop counters of the calls that are inside their
\* loops: with n pool pieces, the call of frames[j] places piece n - j.
\* The run goes on from one of three points:
\*   "enter"  : a call begins
\*   "loop"   : the loops of the innermost call go on from its counters
\*   "return" : the innermost call has returned nil to its caller
RECURSIVE solve(_, _, _)
solve(at, g, frames) ==
    IF at = "enter"
    THEN IF Len(pool) - 1 - Len(frames) = 0
         THEN IF ~solveFull(g)
              THEN Outcome("panic", ErrExhausted, g, frames, NilSlice)
              ELSE LET c == solveCopy(g)
                   IN  Outcome("send", Nil, c.g, frames, c.msg)
         ELSE solve("loop", g, Append(frames, FirstIter))
    ELSE IF at = "loop"
    THEN LET vs == cache[Len(pool) - Len(frames)]
             nv == Len(vs)
             \* add returns (false, nil) and leaves g as it is in the
             \* iterations before the first one of hits
             hits == {k \in Lin(frames[Len(frames)], nv)..(DimX * DimY * nv - 1) :
                         LET r == solveAdd(g, vs, k) IN r.ok \/ r.err # Nil}
         IN  IF hits = {}
             THEN solve("return", g, SubSeq(frames, 1, Len(frames) - 1))
             ELSE LET k0 == Least(hits)
                      r0 == solveAdd(g, vs, k0)
                      fs == [frames EXCEPT ![Len(frames)] = UnLin(k0, nv)]
                  IN  IF r0.err # Nil
                      THEN Outcome("panic", r0.err, r0.g, fs, NilSlice)
                      ELSE solve("enter", r0.g, fs)
    ELSE IF frames = <<>>
    THEN Outcome("exit", Nil, g, frames, NilSlice)
    ELSE LET p == pop(g)
             nv == Len(cache[Len(pool) - Len(frames)])
         IN  IF p.err # Nil
             THEN Outcome("panic", p.err, p.g, frames, NilSlice)
             ELSE solve("loop", p.g, [frames EXCEPT ![Len(frames)] = Iterate(@, nv)])

waitReturns_AtOnce(n) == TRUE

\* wg.Wait() returns when the counter is zero
waitReturns(n) == n = 0

(***************************************************************************)
(* Spec: main of the multi-solution engine                                 *)
(***************************************************************************)
MaxLag == 2

L3(x, y) == {<<x, y>>, <<x, y + 1>>, <<x - 1, y + 1>>}

ConcInputs ==
    { [board |-> BoardText({}), pool |-> <<>>],
      [board |-> BoardText({<<2, 8>>, <<2, 9>>, <<2, 10>>, <<3, 10>>, <<4, 10>>}),
       pool |-> <<"lightblue">>],
      [board |-> BoardText({<<3, 7>>, <<3, 9>>} \cup Window(4, 6, 1, 5)),
       pool |-> <<"turquoise", "green">>],
      [board |-> BoardText(L3(4, 9)), pool |-> <<"turquoise">>],
      [board |-> BoardText(Window(4, 7, 1, 4)), pool |-> <<"blue">>],
      [board |-> BoardText({<<3, 6>>, <<3, 7>>, <<3, 10>>, <<4, 6>>, <<4, 8>>, <<4, 9>>, <<4, 10>>}),
       pool |-> <<"turquoise", "blue">>],
      [board |-> BoardText(L3(4, 9) \cup {<<4, 0>>}), pool |-> <<"turquoise">>],
      [board |-> BoardText({<<4, 10>>}), pool |-> <<"turquoise">>] }

Init ==
    /\ \E in \in ConcInputs : board = in.board /\ pool = in.pool
    /\ sess = parseBoard(board)
    /\ last = NoCall
    /\ stack = <<>>
    /\ pcS = "none"
    /\ rv = NoCall
    /\ mainpc = "solveP"
    /\ ch = "none"
    /\ iter = FirstIter
    /\ wg = 0
    /\ units = <<>>
    /\ exiting = 0
    /\ closer = "none"
    /\ received = <<>>
    /\ panicked = Nil

fixed == <<board, pool, sess, last, seqVars>>

\* solveP with len(ps) == 0: return nil, and main ranges over a nil channel.
SolvePNil ==
    /\ panicked = Nil
    /\ mainpc = "solveP"
    /\ Len(cache) = 0
    /\ ch' = "nil"
    /\ mainpc' = "range"
    /\ UNCHANGED <<fixed, iter, wg, units, exiting, closer, received, panicked>>

\* res = make(chan []Move), and the loops begin
SolvePMake ==
    /\ panicked = Nil
    /\ mainpc = "solveP"
    /\ Len(cache) # 0
    /\ ch' = "open"
    /\ mainpc' = "spawn"
    /\ iter' = FirstIter
    /\ UNCHANGED <<fixed, wg, units, exiting, closer, received, panicked>>

\* One iteration of the loops: g2, wg.Add(1), go func, and the add of the
\* new goroutine on g2.
SpawnVersions == cache[Len(cache)]

SpawnAdd ==
    add(Game(sess.cells, sess.count), SpawnVersions[iter.t + 1], <<iter.x, iter.y>>)

SpawnGuard ==
    /\ panicked = Nil
    /\ mainpc = "spawn"
    /\ iter.x < DimX
    /\ exiting < MaxLag

\* ... the add returns an error: panic(err), which runs the deferred
\* wg.Done and ends the program
SpawnPanics ==
    /\ SpawnGuard
    /\ SpawnAdd.err # Nil
    /\ wg' = wg + 1 - 1
    /\ panicked' = SpawnAdd.err
    /\ UNCHANGED <<fixed, mainpc, ch, iter, units, exiting, closer, received>>

\* ... the add does not place the piece: return, with wg.Done deferred
SpawnSkips ==
    /\ SpawnGuard
    /\ SpawnAdd.err = Nil
    /\ ~SpawnAdd.ok
    /\ wg' = wg + 1
    /\ exiting' = exiting + 1
    /\ iter' = Iterate(iter, Len(SpawnVersions))
    /\ UNCHANGED <<fixed, mainpc, ch, units, closer, received, panicked>>

\* ... the add places the piece: the goroutine is about to call solve
SpawnPlaces ==
    /\ SpawnGuard
    /\ SpawnAdd.err = Nil
    /\ SpawnAdd.ok
    /\ wg' = wg + 1
    /\ units' = units @@ (iter :> [pc |-> "start", g |-> SpawnAdd.g,
                                   frames |-> <<>>, msg |-> NilSlice])
    /\ iter' = Iterate(iter, Len(SpawnVersions))
    /\ UNCHANGED <<fixed, mainpc, ch, exiting, closer, received, panicked>>

\* The loops are over: go func() { wg.Wait(); close(res) }, return res.
SpawnEnd ==
    /\ panicked = Nil
    /\ mainpc = "spawn"
    /\ iter.x >= DimX
    /\ closer' = "wait"
    /\ mainpc' = "range"
    /\ UNCHANGED <<fixed, ch, iter, wg, units, exiting, received, panicked>>

UnitRun_SharedSession(u) ==
    /\ panicked = Nil
    /\ units[u].pc \in {"start", "resume"}
    /\ LET o == IF units[u].pc = "start"
                THEN solve("enter", units[u].g, <<>>)
                ELSE solve("return", units[u].g, units[u].frames)
       IN  /\ units' = [v \in DOMAIN units |->
                           IF v = u
                           THEN [pc |-> IF o.out = "panic" THEN "done" ELSE o.out,
                                 g |-> o.g, frames |-> o.frames, msg |-> o.msg]
                           ELSE [units[v] EXCEPT !.g = o.g]]
           /\ panicked' = IF o.out = "panic" THEN o.err ELSE Nil
           /\ wg' = IF o.out = "panic" THEN wg - 1 ELSE wg
    /\ UNCHANGED <<fixed, mainpc, ch, iter, exiting, closer, received>>

\* A goroutine runs solve up to its next send, to its return, or to an
\* error: panic(err), which runs the deferred wg.Done and ends the program.
UnitRun(u) ==
    /\ panicked = Nil
    /\ units[u].pc \in {"start", "resume"}
    /\ LET o == IF units[u].pc = "start"
                THEN solve("enter", units[u].g, <<>>)
                ELSE solve("return", units[u].g, units[u].frames)
       IN  /\ units' = [units EXCEPT ![u] = [pc |-> IF o.out = "panic" THEN "done" ELSE o.out,
                                             g |-> o.g, frames |-> o.frames, msg |-> o.msg]]
           /\ panicked' = IF o.out = "panic" THEN o.err ELSE Nil
           /\ wg' = IF o.out = "panic" THEN wg - 1 ELSE wg
    /\ UNCHANGED <<fixed, mainpc, ch, iter, exiting, closer, received>>

\* ch <- res meets the receive of main's range loop (the channel has no
\* buffer); a send on a closed channel panics.
Deliver(u) ==
    /\ panicked = Nil
    /\ units[u].pc = "send"
    /\ IF ch = "closed" THEN TRUE ELSE mainpc = "range"
    /\ IF ch = "closed"
       THEN /\ panicked' = ErrSendClosed
            /\ UNCHANGED <<units, received>>
       ELSE /\ received' = Append(received, [u |-> u, sl |-> units[u].msg])
            /\ units' = [units EXCEPT ![u].pc = "resume"]
            /\ UNCHANGED panicked
    /\ UNCHANGED <<fixed, mainpc, ch, iter, wg, exiting, closer>>

\* The deferred wg.Done of a goroutine whose solve has returned ...
UnitDone(u) ==
    /\ panicked = Nil
    /\ units[u].pc = "exit"
    /\ units' = [units EXCEPT ![u].pc = "done"]
    /\ wg' = wg - 1
    /\ UNCHANGED <<fixed, mainpc, ch, iter, exiting, closer, received, panicked>>

\* ... and of one whose add did not place the piece.
SkippedUnitDone ==
    /\ panicked = Nil
    /\ exiting > 0
    /\ exiting' = exiting - 1
    /\ wg' = wg - 1
    /\ UNCHANGED <<fixed, mainpc, ch, iter, units, closer, received, panicked>>

CloserWakes ==
    /\ panicked = Nil
    /\ closer = "wait"
    /\ waitReturns(wg)
    /\ closer' = "close"
    /\ UNCHANGED <<fixed, mainpc, ch, iter, wg, units, exiting, received, panicked>>

\* close(res); closing a closed channel panics.
CloserCloses ==
    /\ panicked = Nil
    /\ closer = "close"
    /\ closer' = "done"
    /\ ch' = "closed"
    /\ panicked' = IF ch = "closed" THEN ErrCloseClosed ELSE Nil
    /\ UNCHANGED <<fixed, mainpc, iter, wg, units, exiting, received>>

\* The range loop of main ends when the channel is closed.
RangeEnds ==
    /\ panicked = Nil
    /\ mainpc = "range"
    /\ ch = "closed"
    /\ mainpc' = "done"
    /\ UNCHANGED <<fixed, ch, iter, wg, units, exiting, closer, received, panicked>>

Next ==
    \/ SolvePNil
    \/ SolvePMake
    \/ SpawnPanics
    \/ SpawnSkips
    \/ SpawnPlaces
    \/ SpawnEnd
    \/ \E u \in DOMAIN units : UnitRun(u)
    \/ \E u \in DOMAIN units : Deliver(u)
    \/ \E u \in DOMAIN units : UnitDone(u)
    \/ SkippedUnitDone
    \/ CloserWakes
    \/ CloserCloses
    \/ RangeEnds

Spec == Init /\ [][Next]_vars

\* Every goroutine that can take a step eventually takes one.
FairSpec == Spec /\ WF_vars(Next)

\* The elements of the i-th received slice, read from the memory of the
\* goroutine that sent it.
Received(i) == Elems(units[received[i].u].g.heap, received[i].sl)

(***************************************************************************)
(* Claims about add and pop (SpecGame)                                     *)
(***************************************************************************)

\* C8: a pop that immediately follows an add that placed its piece returns
\* no error and leaves the grid, the count and the move history as they
\* were before that add.
C8_PopUndoesAdd ==
    (last.op = "pop" /\ last.afterAdd) =>
        (last.err = Nil /\ View(sess) = last.preAdd)

C8_Witness ==
    /\ last.op = "pop"
    /\ last.afterAdd
    /\ last.err = Nil
    /\ Len(last.pre.moves) = 1
    /\ Moves(sess) = <<>>

\* C9 as stated: an add whose image meets an occupied cell returns 'not
\* placed' with no error and changes nothing, whatever the occupied count.
C9_AsStated ==
    (last.op = "add" /\ last.overlap) =>
        (~last.ok /\ last.err = Nil /\ View(sess) = last.pre)

\* C9 amended: an add whose image meets an occupied cell never places the
\* piece and changes nothing; it returns no error when the occupied count
\* plus the piece size is at most DimX*DimY, and the capacity error (which
\* is tested before the overlap) otherwise.
C9_OverlapRejected ==
    (last.op = "add" /\ last.overlap) =>
        /\ ~last.ok
        /\ View(sess) = last.pre
        /\ (last.pre.count + last.size <= DimX * DimY => last.err = Nil)
        /\ (last.pre.count + last.size > DimX * DimY => last.err = ErrFull)

C9_Witness ==
    /\ last.op = "add"
    /\ last.overlap
    /\ ~last.oob
    /\ ~last.ok
    /\ last.err = Nil
    /\ last.pre.count + last.size <= DimX * DimY

\* C10: an add whose image has a cell outside the board does not place the
\* piece and leaves the grid, the count and the move history unchanged.
C10_BoundsRejected ==
    (last.op = "add" /\ last.oob) =>
        (~last.ok /\ View(sess) = last.pre)

C10_Witness ==
    /\ last.op = "add"
    /\ last.oob
    /\ ~last.overlap
    /\ ~last.ok
    /\ last.err = Nil
    /\ last.pre.count < DimX * DimY

\* C11: a pop on a session with an empty move history returns the
\* empty-history error and leaves the grid, the count and the history
\* unchanged, whatever cells the board has occupied.
C11_PopOnEmpty ==
    (last.op = "pop" /\ last.pre.moves = <<>>) =>
        (last.err = ErrEmpty /\ View(sess) = last.pre)

\* Such a pop on a board with occupied cells, after an add and a pop have
\* left a backing array behind.
C11_Witness ==
    /\ last.op = "pop"
    /\ last.pre.moves = <<>>
    /\ last.err = ErrEmpty
    /\ last.pre.count > 0
    /\ sess.heap # <<>>

\* C15: after any sequence of add and pop calls on a session that starts
\* as parseBoard returns it, which is also how solveP makes the session of
\* each goroutine, the occupied count is the number of true cells of the
\* grid.
C15_CountIsCells == sess.count = Cardinality(sess.cells)

\* An add has placed a piece on a board that had occupied cells at the
\* start.
C15_Witness ==
    /\ last.op = "add"
    /\ last.ok
    /\ Len(Moves(sess)) = 1
    /\ sess.count > SumImages(Moves(sess))
    /\ sess.count = Cardinality(sess.cells)

(***************************************************************************)
(* Claims about the single-solution search (SpecSeq)                       *)
(***************************************************************************)
InitiallyOccupied == {p \in Positions : board[p] = "x"}

InitiallyFree == Positions \ InitiallyOccupied

RECURSIVE SumSizes(_)
SumSizes(ps) == IF ps = <<>> THEN 0 ELSE Len(ps[1].pos) + SumSizes(Tail(ps))

CellsAt(piece, a) == {translate(piece.pos[i], a) : i \in 1..Len(piece.pos)}

ImageSet(m) == CellsAt(m.Piece, m.Translate)

\* The moves ms place the pieces named by the pool (the last name first),
\* inside the board, on pairwise disjoint cells that were free at the
\* start, and leave no cell of the board free.
IsTiling(ms, names, shapes(_)) ==
    /\ Len(ms) = Len(names)
    /\ \A i \in 1..Len(ms) :
          /\ ms[i].Piece.name = names[Len(names) + 1 - i]
          /\ ms[i].Piece \in shapes(ms[i].Piece.name)
          /\ ImageSet(ms[i]) \subseteq Positions
          /\ ImageSet(ms[i]) \cap InitiallyOccupied = {}
          /\ Cardinality(ImageSet(ms[i])) = Len(ms[i].Piece.pos)
    /\ \A i, j \in 1..Len(ms) : i # j => ImageSet(ms[i]) \cap ImageSet(ms[j]) = {}
    /\ InitiallyOccupied \cup UNION {ImageSet(ms[i]) : i \in 1..Len(ms)} = Positions

ShapesB(name) == {transformB(getPieceB(name), txB[t]) : t \in 1..8}

AreaMatchesB == SumSizes(parseAvailableB(pool)) = Cardinality(InitiallyFree)

\* Some choice of one of the 8 transforms and an anchor for each of the
\* first k pool pieces gives disjoint images inside the cells of free.
RECURSIVE TileB(_, _)
TileB(free, k) ==
    \/ k = 0
    \/ \E t \in 1..8, a \in Positions :
          LET cs == CellsAt(transformB(getPieceB(pool[k]), txB[t]), a)
          IN  /\ cs \subseteq free
              /\ Cardinality(cs) = Len(getPieceB(pool[k]).pos)
              /\ TileB(free \ cs, k - 1)

\* The first such choice in the scan order of the loops: rows, then
\* columns, then the transform table; for the last pool piece first.
RECURSIVE FirstB(_, _)
FirstB(free, k) ==
    IF k = 0 THEN <<>>
    ELSE LET P(c) == transformB(getPieceB(pool[k]), txB[c[3]])
             cs(c) == CellsAt(P(c), <<c[1], c[2]>>)
             cands == {c \in (0..(DimX - 1)) \X (0..(DimY - 1)) \X (1..8) :
                          /\ cs(c) \subseteq free
                          /\ TileB(free \ cs(c), k - 1)}
             key(c) == (c[1] * DimY + c[2]) * 8 + c[3]
             c0 == CHOOSE c \in cands : \A d \in cands : key(c) <= key(d)
         IN  <<Move(P(c0), <<c0[1], c0[2]>>)>> \o FirstB(free \ cs(c0), k - 1)

\* C5: when the single-solution search returns success, the move history
\* holds one move per pool piece, with images inside the board, pairwise
\* disjoint, off the initially occupied cells, and covering every free cell.
C5_SuccessIsTiling ==
    (SeqDone /\ rv.ok) => IsTiling(Moves(sess), pool, ShapesB)

C5_Witness ==
    /\ SeqDone
    /\ rv.ok
    /\ Len(pool) = 2
    /\ Len(Moves(sess)) = 2

\* C6: with a pool whose area is the number of free cells the
\* single-solution search returns no error; it returns failure only if no
\* choice of one of the 8 transforms and an anchor for every pool piece
\* tiles the free cells; and a success returns the first tiling in the
\* scan order of the loops, so the result and the move history are a
\* function of the board and the pool.
C6_ExhaustiveDeterministic ==
    (SeqDone /\ AreaMatchesB) =>
        /\ rv.err = Nil
        /\ rv.ok <=> TileB(InitiallyFree, Len(pool))
        /\ rv.ok => Moves(sess) = FirstB(InitiallyFree, Len(pool))

C6_Witness ==
    /\ SeqDone
    /\ AreaMatchesB
    /\ pool # <<>>
    /\ ~rv.ok
    /\ rv.err = Nil
    /\ ~TileB(InitiallyFree, Len(pool))

\* C7: a call of the search with an empty pool returns success when the
\* occupied count is DimX*DimY and the premature-exhaustion error
\* otherwise; that error goes up to main unchanged, call by call, with the
\* session untouched; on the empty board with a pool of one 4-cell piece
\* main gets that error with one move placed.
C7_EmptyPoolError ==
    /\ []((pcS = "return" /\ Len(stack) = Len(pool)) =>
            rv = IF sess.count = DimX * DimY
                 THEN Ret(TRUE, Nil) ELSE Ret(FALSE, ErrExhausted))
    /\ []((SeqDone /\ board = BoardText(Positions) /\ pool = <<"blue">>) =>
            (rv = Ret(FALSE, ErrExhausted) /\ Len(Moves(sess)) = 1))
    /\ [][(pcS = "return" /\ rv.err = ErrExhausted) =>
            /\ rv' = rv
            /\ sess' = sess
            /\ pcS' = "return"
            /\ Len(stack') = Len(stack) - 1]_vars

C7_Witness ==
    /\ SeqDone
    /\ board = BoardText(Positions)
    /\ pool = <<"blue">>
    /\ rv = Ret(FALSE, ErrExhausted)
    /\ Len(Moves(sess)) = 1


(***************************************************************************)
(* Claims about the multi-solution engine (Spec, FairSpec)                 *)
(***************************************************************************)
AreaMatches == SumSizes(parseAvailable(pool)) = Cardinality(InitiallyFree)

\* The orientations allVersions gives a piece, and all of its rotations
\* and reflections.
Shapes(name) ==
    LET vs == allVersions(getPiece(name)) IN {vs[t] : t \in 1..Len(vs)}

Orientations(name) == {transform(getPiece(name), tx[t]) : t \in 1..Len(tx)}

\* The ways to cover exactly the cells of free with one image of each of
\* the first k pool pieces, in any orientation: T[j] is the image of the
\* j-th pool piece.  The origin is a cell of every piece, so the anchor of
\* an image is one of its cells.
RECURSIVE Tilings(_, _)
Tilings(free, k) ==
    IF k = 0
    THEN IF free = {} THEN {<<>>} ELSE {}
    ELSE LET fits == {cs \in {CellsAt(P, a) : P \in Orientations(pool[k]), a \in free} :
                         cs \subseteq free /\ Cardinality(cs) = Len(getPiece(pool[k]).pos)}
         IN  UNION {{Append(T, cs) : T \in Tilings(free \ cs, k - 1)} : cs \in fits}

Delivered(T) ==
    \E i \in 1..Len(received) :
       /\ Len(Received(i)) = Len(pool)
       /\ \A j \in 1..Len(pool) : ImageSet(Received(i)[Len(pool) + 1 - j]) = T[j]

\* C1: for a non-empty pool whose area equals the number of free cells,
\* when the consumer has seen end-of-stream, every tiling of the free cells
\* by the pool pieces, in any rotation or reflection, has been delivered;
\* with two or more tilings, two different move sequences were delivered.
C1_AllTilingsDelivered ==
    (mainpc = "done" /\ pool # <<>> /\ AreaMatches) =>
        /\ \A T \in Tilings(InitiallyFree, Len(pool)) : Delivered(T)
        /\ Cardinality(Tilings(InitiallyFree, Len(pool))) >= 2 =>
              \E i, j \in 1..Len(received) : Received(i) # Received(j)

\* C2: every received value holds one move per pool piece, the piece the
\* goroutines were started for first, with images inside the board,
\* pairwise disjoint, off the initially occupied cells and covering every
\* free cell; and no step changes a value that has been received.
C2_DeliveredAreTilings ==
    /\ [](\A i \in 1..Len(received) : IsTiling(Received(i), pool, Shapes))
    /\ [][\A i \in 1..Len(received) :
             Elems(units'[received[i].u].g.heap, received[i].sl) = Received(i)]_vars

\* A goroutine has delivered a value, gone on with pop and add, and
\* delivered another one.
C2_Witness ==
    \E i, j \in 1..Len(received) :
       /\ i < j
       /\ received[i].u = received[j].u
       /\ units[received[i].u].g.moves.len < Len(pool)

\* C3: whenever the area of the pool equals the number of free cells, the
\* empty pool included, the consumer eventually sees end-of-stream.
C3_EndOfStream == AreaMatches ~> (mainpc = "done")

\* C4: the WaitGroup counts the started goroutines that have not finished;
\* the channel is closed only when every one of them has finished and
\* solveP has started them all; it is closed at most once, and nothing is
\* sent on it or received from it afterwards.
C4_ClosedOnceAfterAll ==
    /\ [](panicked = Nil =>
             wg = exiting + Cardinality({u \in DOMAIN units : units[u].pc # "done"}))
    /\ [](ch = "closed" =>
             /\ mainpc \in {"range", "done"}
             /\ closer = "done"
             /\ wg = 0
             /\ exiting = 0
             /\ \A u \in DOMAIN units : units[u].pc = "done")
    /\ [](panicked \notin {ErrSendClosed, ErrCloseClosed})
    /\ [][ch = "closed" => ch' = "closed" /\ closer' = "done" /\ received' = received]_vars

\* The channel is closed after several goroutines have delivered values.
C4_Witness ==
    /\ ch = "closed"
    /\ Len(received) >= 2
    /\ Cardinality({received[i].u : i \in 1..Len(received)}) >= 2

(***************************************************************************)
(* Claims about the transform table and the orientations (SpecGeom)        *)
(***************************************************************************)
\* The cells of a piece moved so that its least row and least column are 0:
\* two pieces have the same shape up to translation when these are equal.
Normal(p) ==
    LET cs == {p.pos[i] : i \in 1..Len(p.pos)}
        x0 == CHOOSE x \in {c[1] : c \in cs} : \A c \in cs : x <= c[1]
        y0 == CHOOSE y \in {c[2] : c \in cs} : \A c \in cs : y <= c[2]
    IN  {<<c[1] - x0, c[2] - y0>> : c \in cs}

\* C12: for a catalog piece flagged symmetric, the 4 orientations of
\* allVersions are pairwise different up to translation, and the piece
\* under each of the 8 transforms equals one of them up to translation.
C12_SymmetricCovered ==
    (last.op = "allVersions" /\ last.piece.sym) =>
        /\ Len(last.out) = 4
        /\ \A i, j \in 1..Len(last.out) : i # j => Normal(last.out[i]) # Normal(last.out[j])
        /\ \A t \in 1..Len(tx) :
              \E i \in 1..Len(last.out) : Normal(transform(last.piece, tx[t])) = Normal(last.out[i])

\* The identity and the three quarter turns.
Rotations ==
    {Identity, Rot90, Mult(Rot90, Rot90), Mult(Mult(Rot90, Rot90), Rot90)}

C14_TableIsClosed ==
    /\ Len(tx) = 8
    /\ \A t, t2 \in 1..Len(tx) : t # t2 => tx[t] # tx[t2]
    /\ \A t \in 1..Len(tx) : \A i, j \in 1..2 : tx[t][i][j] \in {-1, 0, 1}
    /\ \E t \in 1..Len(tx) : tx[t] = Identity
    /\ last.op = "Mult" => \E t \in 1..Len(tx) : last.out = tx[t]
    /\ (last.op = "Transform" /\ last.m = Identity) => last.out = last.p

\* A product of two table entries, neither the identity, that do not
\* commute.
C14_Witness ==
    /\ last.op = "Mult"
    /\ last.m # Identity
    /\ last.m2 # Identity
    /\ last.out # Mult(last.m2, last.m)
    /\ last.out # Identity

(***************************************************************************)
(* Claims about the sessions of the goroutines (Spec)                      *)
(***************************************************************************)
\* The sessions that exist: the one main parsed and the one of each
\* goroutine whose add placed its piece.
Sessions == {sess} \cup {units[u].g : u \in DOMAIN units}

\* C16 as stated: the occupied count of every session is the sum of the
\* sizes of the pieces on its move history, and it is DimX*DimY in a
\* session whose goroutine is delivering a solution.
C16_AsStated ==
    /\ \A g \in Sessions : g.count = SumImages(Moves(g))
    /\ \A u \in DOMAIN units : units[u].pc = "send" => units[u].g.count = DimX * DimY

\* C16 amended: the occupied count of every session is the number of cells
\* occupied in the starting board plus the sum of the sizes of the pieces
\* on its move history, and it is DimX*DimY in a session whose goroutine is
\* delivering a solution.
C16_AreaConserved ==
    /\ \A g \in Sessions :
          g.count = Cardinality(InitiallyOccupied) + SumImages(Moves(g))
    /\ \A u \in DOMAIN units : units[u].pc = "send" => units[u].g.count = DimX * DimY

\* A goroutine is delivering a solution of two pieces on a board that had
\* occupied cells at the start, while another one has popped its last add.
C16_Witness ==
    \E u, v \in DOMAIN units :
       /\ units[u].pc = "send"
       /\ Len(Moves(units[u].g)) = 2
       /\ units[u].g.count > SumImages(Moves(units[u].g))
       /\ units[v].pc \in {"exit", "done"}
       /\ Len(units[v].g.heap) > 0
       /\ Len(Moves(units[v].g)) = 1

\* C17: in every session, the images of the moves on the history lie
\* inside the board, are disjoint from the cells occupied in the starting
\* board and are pairwise disjoint.
C17_ImagesDisjoint ==
    \A g \in Sessions :
       LET ms == Moves(g)
       IN  /\ \A i \in 1..Len(ms) :
                /\ ImageSet(ms[i]) \subseteq Positions
                /\ ImageSet(ms[i]) \cap InitiallyOccupied = {}
                /\ ImageSet(ms[i]) = {image(ms[i])[k] : k \in 1..Len(image(ms[i]))}
           /\ \A i, j \in 1..Len(ms) : i # j => ImageSet(ms[i]) \cap ImageSet(ms[j]) = {}

\* A goroutine has delivered a solution and its session still holds the
\* two moves; another goroutine has returned, its session holding the one
\* move it was started with.
C17_Witness ==
    \E u, v \in DOMAIN units :
       /\ units[u].pc = "resume"
       /\ Len(Moves(units[u].g)) = 2
       /\ units[v].pc = "done"
       /\ Len(Moves(units[v].g)) = 1

\* C18: no step changes the session main parsed; a step changes the
\* session of at most one goroutine, and none when a goroutine is started;
\* the channel is written by whichever goroutine is sending.
C18_SessionsPrivate ==
    [][/\ sess' = sess
       /\ DOMAIN units \subseteq DOMAIN units'
       /\ Cardinality({u \in DOMAIN units : units'[u].g # units[u].g}) <=
             IF DOMAIN units' = DOMAIN units THEN 1 ELSE 0
       /\ \A u \in DOMAIN units' \ DOMAIN units :
             /\ units'[u].g.count = sess.count + Len(Moves(units'[u].g)[1].Piece.pos)
             /\ sess.cells \subseteq units'[u].g.cells
       /\ received' # received =>
             \E u \in DOMAIN units :
                /\ units[u].pc = "send"
                /\ received' = Append(received, [u |-> u, sl |-> units[u].msg])]_vars

\* Two goroutines hold different full grids while both are blocked in their
\* send, after a value of one of them has been received.
C18_Witness ==
    \E u, v \in DOMAIN units :
       /\ units[u].pc = "send"
       /\ units[v].pc = "send"
       /\ Moves(units[u].g) # Moves(units[v].g)
       /\ \E i \in 1..Len(received) : received[i].u = u

\* C19: when the area of the pool equals the number of free cells of the
\* board, no goroutine gets an error from add, pop or solve, and the
\* program never panics.
C19_NoPanic ==
    AreaMatches =>
        /\ panicked = Nil
        /\ \A u \in DOMAIN units :
              units[u].pc = "start" => solve("enter", units[u].g, <<>>).out # "panic"

\* All goroutines of a pool of two pieces whose area matches have returned,
\* after adds that placed and did not place, pops and sends.
C19_Witness ==
    /\ AreaMatches
    /\ Len(pool) = 2
    /\ mainpc = "done"
    /\ Len(received) >= 2
    /\ \A u \in DOMAIN units : units[u].pc = "done"
    /\ panicked = Nil

\* The session a call of solve finds when it is entered in the goroutine
\* started with the loop counters u, the calls that are inside their loops
\* having the counters frames: the starting board with the move of the
\* goroutine and one move for each of these calls.
EntryMoves(u, frames) ==
    <<Move(cache[Len(pool)][u.t + 1], <<u.x, u.y>>)>> \o
    [j \in 1..Len(frames) |->
        Move(cache[Len(pool) - j][frames[j].t + 1], <<frames[j].x, frames[j].y>>)]

EntryView(u, frames) ==
    LET ms == EntryMoves(u, frames)
    IN  [cells |-> InitiallyOccupied \cup UNION {ImageSet(ms[i]) : i \in 1..Len(ms)},
         count |-> Cardinality(InitiallyOccupied) + SumImages(ms),
         moves |-> ms]

\* C20: in the streaming search, a session is as the innermost call found
\* it at entry whenever that call is about to be entered, is sending, or
\* has sent and is about to return nil; and when the outermost call has
\* returned nil, the session is as that call found it, holding only the
\* move the goroutine was started with.
C20_CallsRestoreSession ==
    \A u \in DOMAIN units :
       /\ units[u].pc \in {"start", "send", "resume"} =>
             View(units[u].g) = EntryView(u, units[u].frames)
       /\ units[u].pc = "exit" =>
             /\ units[u].frames = <<>>
             /\ View(units[u].g) = EntryView(u, <<>>)
       /\ (units[u].pc = "done" /\ panicked = Nil) => View(units[u].g) = EntryView(u, <<>>)

\* The outermost call of a goroutine has returned nil after two sends, each
\* followed by a pop.
C20_Witness ==
    \E u \in DOMAIN units :
       /\ units[u].pc = "exit"
       /\ Cardinality({i \in 1..Len(received) : received[i].u = u}) = 2
       /\ Len(units[u].g.heap) >= 4
       /\ View(units[u].g) = EntryView(u, <<>>)

\* The same for the single-solution search (SpecSeq): the session a call
\* finds at entry, its callers having the loop counters of the stack, and
\* the session it leaves when it returns (false, nil).
EntryViewB(frames) ==
    LET ms == [j \in 1..Len(frames) |->
                  Move(cacheB[Len(pool) - j + 1][frames[j].t + 1], <<frames[j].x, frames[j].y>>)]
    IN  [cells |-> InitiallyOccupied \cup UNION {ImageSet(ms[i]) : i \in 1..Len(ms)},
         count |-> Cardinality(InitiallyOccupied) + SumImages(ms),
         moves |-> ms]

SeqCallsRestoreSession ==
    (pcS = "enter" \/ (pcS = "return" /\ rv = Ret(FALSE, Nil))) =>
        View(sess) = EntryViewB(stack)

(***************************************************************************)
(* Claim about repeated deliveries (Spec)                                  *)
(***************************************************************************)
\* Two received values give every piece the same cells.
SameTiling(i, j) ==
    /\ Len(Received(i)) = Len(Received(j))
    /\ \A k \in 1..Len(Received(i)) :
          /\ Received(i)[k].Piece.name = Received(j)[k].Piece.name
          /\ ImageSet(Received(i)[k]) = ImageSet(Received(j)[k])

====
